---- MODULE Spec2Model ----
(***************************************************************************)
(* A model of the travel assistant's gather-then-synthesize agent:         *)
(*   backend/agent_loop.py    AgentLoop (choose_tool_result, execute_tool, *)
(*                            run)                                         *)
(*   backend/gemini_agent.py  run_agent (synchronous) and run_agent_stream *)
(*                            (worker thread + polling consumer)           *)
(*   backend/app.py           chat (the /chat route) and chat.generate     *)
(*                            (the SSE framing of the stream)              *)
(*   backend/tools, cache.py  get_weather, convert, search_wikipedia and   *)
(*                            the cache they share                         *)
(* Spec is one request, ToolSpec the tool collaborators called on their    *)
(* own, ConcurrentSpec two streamed requests at once, ChatSpec a request   *)
(* from its arrival at the /chat route.                                    *)
(*                                                                         *)
(* Python values are modelled as follows.  A dict is a function from its   *)
(* keys (strings) to its values, the empty dict is <<>>; a JSON string     *)
(* value is a TLA+ string and every non-string JSON value (null, a number) *)
(* is the one value None, which has no .lower().  A text (the Context, an  *)
(* engine reply) is a sequence of pieces, the empty text is <<>>.          *)
(* Timestamps are left out of the pieces.                                  *)
(***************************************************************************)
EXTENDS Integers, Sequences, FiniteSets, TLC

VARIABLES
    mode,            \* "sync": run_agent, "stream": run_agent_stream behind /chat,
                     \* "parse": choose_tool_result alone, on one engine reply,
                     \* "chat": a request at the /chat route, not yet examined
    message,         \* the user query of the request
    max_iterations,  \* AgentLoop.max_iterations
    output_context,  \* AgentLoop.output_context
    iteration_count, \* AgentLoop.iteration_count
    response,        \* the reasoning engine's reply of the current decision cycle
    tool_decision,   \* run's local tool_decision
    pc,              \* position of the thread executing AgentLoop.run
    decided,         \* history: the decisions choose_tool_result returned, in order
    calls,           \* history: the execute_tool dispatches made, in order
    emitted,         \* history: the events handed to thinking_callback, in order
    event_queue,     \* run_agent_stream's event_queue
    agent_context,   \* run_agent's / run_agent_stream's agent_context
    tool_traces,     \* run_agent_stream's tool_traces / run_agent's traces
    cpc,             \* position of the caller's thread (run_agent, or the generator)
    chunks,          \* number of chunks the synthesis stream has produced
    yielded,         \* the frames chat.generate has handed to the client, in order
    result,          \* what run_agent returned
    prompts,         \* history: the prompts the synthesis engine was called with
    body,            \* the JSON body of the POST /chat request
    http,            \* the status line chat answered with
    cache,           \* cache.py's _redis: key -> serialized value and expiry time
    now,             \* the time, in seconds
    served,          \* history: the calls of the tool collaborators, with their results
    loops,           \* two requests at once: the fields of each AgentLoop instance
    runs             \* two requests at once: the locals of each request

vars == <<mode, message, max_iterations, output_context, iteration_count, response,
          tool_decision, pc, decided, calls, emitted, event_queue,
          agent_context, tool_traces, cpc, chunks, yielded, result,
          prompts, body, http, cache, now, served, loops, runs>>

\* the state of the /chat route
chatvars == <<body, http>>

\* the state of two requests at once
concvars == <<loops, runs>>

\* the state of the tool collaborators
toolvars == <<cache, now, served>>

(***************************************************************************)
(* Bounds of the model.                                                    *)
(***************************************************************************)
MaxIterations == 2   \* max_iterations ranges over 1..MaxIterations
MaxChunks == 2       \* a synthesis stream has at most MaxChunks chunks
MaxLen == 5          \* an engine reply has at most MaxLen pieces

None == "None"

Get(d, k, default) == IF k \in DOMAIN d THEN d[k] ELSE default

\* truth value of a string-or-None value
Truthy(v) == v # None /\ v # ""

\* str.lower() on the tool names the model uses
Lower(s) ==
    CASE s = "Weather" -> "weather"
      [] s = "STOP" -> "stop"
      [] OTHER -> s

(***************************************************************************)
(* The decisions a reply of the reasoning engine can carry.                *)
(***************************************************************************)
StopDefault == [tool |-> "stop", stop |-> TRUE]

Decisions ==
    { [tool |-> "weather", city |-> "Paris", reason |-> "check conditions"],
      [tool |-> "Weather", city |-> "Paris"],
      [tool |-> "currency", amount |-> "100", reason |-> "budget"],
      [tool |-> "wikipedia", query |-> "Louvre"],
      [tool |-> "get_context", reason |-> ""],
      [tool |-> "stop", stop |-> TRUE, reason |-> "done"],
      [tool |-> "STOP"],
      [tool |-> "flights", reason |-> "find a flight"],
      [tool |-> None, reason |-> "unsure"],
      [reason |-> "thinking"] }

(***************************************************************************)
(* The reasoning engine's reply.  generate_content either raises or gives  *)
(* a text; the text is a sequence of pieces: "{" and "}" are the braces,   *)
(* "x" is a piece of prose, "m" stands for the member list of an object    *)
(* (the reply's field "members" says which dict it spells out).            *)
(***************************************************************************)
Pieces == {"{", "}", "x", "m"}

Texts == UNION { [1..n -> Pieces] : n \in 0..MaxLen }

Has(text, c) == \E i \in 1..Len(text) : text[i] = c

\* str.index / str.rindex, 0-based as in Python; called only when c occurs
Index(text, c) == (CHOOSE i \in 1..Len(text) : text[i] = c /\ \A j \in 1..(i-1) : text[j] # c) - 1

RIndex(text, c) == (CHOOSE i \in 1..Len(text) : text[i] = c /\ \A j \in (i+1)..Len(text) : text[j] # c) - 1

\* text[start:end] for 0 <= start, end <= len(text)
Slice(text, start, end) == SubSeq(text, start + 1, end)

\* json.loads accepts the text: an object, empty or with a member list whose
\* last value may itself be an object
RECURSIVE IsJsonObject(_)
IsJsonObject(s) ==
    /\ Len(s) >= 2
    /\ s[1] = "{"
    /\ s[Len(s)] = "}"
    /\ LET inner == SubSeq(s, 2, Len(s) - 1)
       IN  \/ inner = <<>>
           \/ inner = <<"m">>
           \/ /\ Len(inner) >= 3
              /\ inner[1] = "m"
              /\ IsJsonObject(Tail(inner))

\* json.loads of an accepted text; a nested object is one more, non-string, value
JsonLoads(s, members) ==
    IF Len(s) = 2 THEN <<>>
    ELSE IF Len(s) = 3 THEN members
    ELSE [k \in DOMAIN members \cup {"options"} |->
             IF k = "options" THEN None ELSE members[k]]

\* a faulty variant: the fallback of the except clause is missing, a reply that
\* cannot be parsed comes back as no decision at all
choose_tool_result_NoFallback(reply) ==
    IF reply.raises THEN <<>>
    ELSE IF Has(reply.text, "{") /\ Has(reply.text, "}")
         THEN LET json_str == Slice(reply.text, Index(reply.text, "{"),
                                    RIndex(reply.text, "}") + 1)
              IN  IF IsJsonObject(json_str)
                  THEN JsonLoads(json_str, reply.members)
                  ELSE <<>>
         ELSE StopDefault

\* AgentLoop.choose_tool_result on the engine's reply
choose_tool_result(reply) ==
    IF reply.raises THEN StopDefault
    ELSE IF Has(reply.text, "{") /\ Has(reply.text, "}")
         THEN LET start == Index(reply.text, "{")
                  end == RIndex(reply.text, "}") + 1
                  json_str == Slice(reply.text, start, end)
              IN  IF IsJsonObject(json_str)
                  THEN JsonLoads(json_str, reply.members)
                  ELSE StopDefault
         ELSE StopDefault

Reply(text, members) == [raises |-> FALSE, text |-> text, members |-> members]

EngineRaises == [raises |-> TRUE, text |-> <<>>, members |-> <<>>]

NoReply == [raises |-> FALSE, text |-> <<>>, members |-> <<>>]

\* every reply within the bound; the member list is one of two dicts
Responses ==
    {EngineRaises}
    \cup { Reply(t, d) : t \in Texts,
                         d \in { [tool |-> "weather", city |-> "Paris", reason |-> "check conditions"],
                                 [tool |-> "stop", stop |-> TRUE, reason |-> "done"] } }

\* the replies the decision cycles of a run draw from: each decision spelled
\* out as one object, the empty object, and replies that cannot be parsed
LoopResponses ==
    { Reply(<<"{", "m", "}">>, d) : d \in Decisions }
    \cup { Reply(<<"{", "}">>, <<>>),
           Reply(<<"x">>, <<>>),
           Reply(<<"{", "m", "}", "x", "}">>,
                 [tool |-> "weather", city |-> "Paris", reason |-> "check conditions"]),
           EngineRaises }

(***************************************************************************)
(* The tool collaborators.  A call returns its payload, returns a payload  *)
(* with an error field, or raises (network error, timeout).                *)
(***************************************************************************)
Collaborators == {"weather", "currency", "wikipedia"}

Outcomes(tool_name) ==
    IF tool_name \in Collaborators THEN {"ok", "error", "raise"} ELSE {"none"}

\* get_weather's payload, the fields execute_tool reads (the whole function
\* is tools_get_weather)
get_weather(city, outcome) ==
    IF outcome = "ok"
    THEN [city |-> city, temperature_c |-> "18"]
    ELSE [city |-> city, error |-> "City not found"]

\* convert's payload, the fields execute_tool reads (the whole function is
\* convert)
convert_currency(amount, outcome) ==
    IF outcome = "ok"
    THEN [amount |-> amount, result |-> "92"]
    ELSE [amount |-> amount, result |-> None, error |-> "Unable to convert"]

\* search_wikipedia's payload, the fields execute_tool reads (the whole
\* function is tools_search_wikipedia)
search_wikipedia(query, outcome) ==
    IF outcome = "ok"
    THEN [title |-> query, summary |-> "summary", success |-> TRUE]
    ELSE [error |-> "No Wikipedia articles found", query |-> query, success |-> FALSE]

\* "Error: ..." is written only for a truthy error field
ErrorLine(payload) ==
    IF Truthy(Get(payload, "error", None)) THEN payload["error"] ELSE ""

(***************************************************************************)
(* The pieces of the Context.                                              *)
(***************************************************************************)
SeedEntry(query) == [piece |-> "Original user query was", query |-> query]

Delimiter == [piece |-> "====="]

Separator == [piece |-> "-----"]

WeatherBlock(decision, payload) ==
    [piece |-> "Weather function was called",
     arg |-> Get(payload, "city", Get(decision, "city", "")),
     value |-> Get(payload, "temperature_c", "N/A"),
     error |-> ErrorLine(payload),
     reason |-> Get(decision, "reason", "Checking weather conditions")]

CurrencyBlock(decision, payload) ==
    [piece |-> "Currency function was called",
     arg |-> Get(decision, "amount", "1"),
     value |-> Get(payload, "result", "N/A"),
     error |-> ErrorLine(payload),
     reason |-> Get(decision, "reason", "Converting currency")]

WikipediaBlock(decision, payload) ==
    [piece |-> "Wikipedia function was called",
     arg |-> Get(decision, "query", ""),
     value |-> Get(payload, "summary", "No summary available"),
     error |-> ErrorLine(payload),
     reason |-> Get(decision, "reason", "Searching for information")]

\* a faulty variant: the block is written without the Context
ContextBlock_Empty(context) == [piece |-> "Context requested", context |-> <<>>]

ContextBlock(context) == [piece |-> "Context requested", context |-> context]

UnknownBlock(tool_name) == [piece |-> "Unknown tool", tool |-> tool_name]

ErrorBlock(tool_name) ==
    [piece |-> "Error executing", tool |-> tool_name, error |-> "exception text"]

\* execute_tool's outcomes: a result string, or an exception that leaves it
Returns(text) == [raised |-> FALSE, output |-> text]

Raises == [raised |-> TRUE, output |-> <<>>]

\* a faulty variant: the try block's except clause is missing
execute_tool_NoExcept(decision, outcome, context) ==
    IF Get(decision, "tool", "") = None THEN Raises
    ELSE LET tool_name == Lower(Get(decision, "tool", ""))
         IN  IF tool_name \in Collaborators /\ outcome = "raise" THEN Raises
             ELSE IF tool_name = "weather"
                  THEN Returns(<<WeatherBlock(decision, get_weather(Get(decision, "city", ""), outcome))>>)
             ELSE IF tool_name = "currency"
                  THEN Returns(<<CurrencyBlock(decision, convert_currency(Get(decision, "amount", "1"), outcome))>>)
             ELSE IF tool_name = "wikipedia"
                  THEN Returns(<<WikipediaBlock(decision, search_wikipedia(Get(decision, "query", ""), outcome))>>)
             ELSE IF tool_name = "get_context" THEN Returns(<<ContextBlock(context)>>)
             ELSE IF tool_name = "stop" THEN Returns(<<>>)
             ELSE Returns(<<UnknownBlock(tool_name)>>)

\* a faulty variant: a name no branch matches gives no output
execute_tool_SilentUnknown(decision, outcome, context) ==
    IF Get(decision, "tool", "") = None THEN Raises
    ELSE LET tool_name == Lower(Get(decision, "tool", ""))
         IN  IF tool_name \in Collaborators /\ outcome = "raise"
             THEN Returns(<<ErrorBlock(tool_name)>>)
             ELSE IF tool_name = "weather"
                  THEN Returns(<<WeatherBlock(decision, get_weather(Get(decision, "city", ""), outcome))>>)
             ELSE IF tool_name = "currency"
                  THEN Returns(<<CurrencyBlock(decision, convert_currency(Get(decision, "amount", "1"), outcome))>>)
             ELSE IF tool_name = "wikipedia"
                  THEN Returns(<<WikipediaBlock(decision, search_wikipedia(Get(decision, "query", ""), outcome))>>)
             ELSE IF tool_name = "get_context" THEN Returns(<<ContextBlock(context)>>)
             ELSE Returns(<<>>)

\* AgentLoop.execute_tool: .lower() is applied before the try block, so a tool
\* value that is not a string raises AttributeError out of execute_tool
execute_tool(decision, outcome, context) ==
    IF Get(decision, "tool", "") = None THEN Raises
    ELSE LET tool_name == Lower(Get(decision, "tool", ""))
         IN  IF tool_name \in Collaborators /\ outcome = "raise"
             THEN Returns(<<ErrorBlock(tool_name)>>)
             ELSE IF tool_name = "weather"
                  THEN Returns(<<WeatherBlock(decision, get_weather(Get(decision, "city", ""), outcome))>>)
             ELSE IF tool_name = "currency"
                  THEN Returns(<<CurrencyBlock(decision, convert_currency(Get(decision, "amount", "1"), outcome))>>)
             ELSE IF tool_name = "wikipedia"
                  THEN Returns(<<WikipediaBlock(decision, search_wikipedia(Get(decision, "query", ""), outcome))>>)
             ELSE IF tool_name = "get_context" THEN Returns(<<ContextBlock(context)>>)
             ELSE IF tool_name = "stop" THEN Returns(<<>>)
             ELSE Returns(<<UnknownBlock(tool_name)>>)

(***************************************************************************)
(* Events, and the hand-off queue of run_agent_stream.                     *)
(***************************************************************************)
ThinkingEvent(iteration, decision) ==
    [type |-> "thinking",
     iteration |-> iteration,
     tool |-> Get(decision, "tool", None),
     reason |-> Get(decision, "reason", "Analyzing query..."),
     params |-> [k \in DOMAIN decision \ {"tool", "reason", "stop"} |-> decision[k]]]

ThinkingComplete ==
    [type |-> "thinking_complete", message |-> "Finished gathering information"]

AgentDone == [type |-> "agent_done"]

TextEvent == [type |-> "text", content |-> "chunk"]

TracesEvent(traces) == [type |-> "traces", traces |-> traces]

ErrorEvent == [type |-> "error", content |-> "exception text"]

DoneFrame == [type |-> "[DONE]"]

Trace(name) == [name |-> name, args |-> <<>>, result |-> <<>>]

\* a faulty variant: the event is put at the head of the queue
QueuePut_AtHead(queue, event) == <<event>> \o queue

\* event_queue.put(event)
QueuePut(queue, event) == Append(queue, event)

\* run_agent_stream's thinking_callback; run_agent passes no callback
HasCallback == mode = "stream"

\* a faulty variant: agent.run is called without the callback, no event is put
Callback_NotPassed(event) == UNCHANGED <<emitted, event_queue>>

Callback(event) ==
    IF HasCallback
    THEN /\ emitted' = Append(emitted, event)
         /\ event_queue' = QueuePut(event_queue, event)
    ELSE UNCHANGED <<emitted, event_queue>>

\* the consumer's bookkeeping of one delivered event
TrackToolUsage(traces, event) ==
    IF event.type = "thinking" /\ Truthy(event.tool)
    THEN IF event.tool = "weather" THEN Append(traces, Trace("weather_tool"))
         ELSE IF event.tool = "currency" THEN Append(traces, Trace("currency_convert"))
         ELSE IF event.tool = "wikipedia" THEN Append(traces, Trace("wikipedia_search"))
         ELSE traces
    ELSE traces

(***************************************************************************)
(* Initial state: the request has arrived, the AgentLoop is constructed    *)
(* and, in a streamed run, the worker thread is started.                   *)
(***************************************************************************)
Queries == {"weather in Paris"}

\* agent_context = None, as the synthesis prompt would format it
NoContext == <<[piece |-> "None"]>>

\* the request did not come through the /chat route
NoBody ==
    [kind |-> "none",
     message |-> [type |-> "absent", text |-> ""],
     history |-> [type |-> "absent", text |-> ""]]

\* a faulty variant: the prompt is built from agent_context as it was initialised
SynthesisPrompt_NoContext(query, context) == [query |-> query, context |-> NoContext]

\* synthesis_prompt: the user query and the gathered Context in the fixed text
SynthesisPrompt(query, context) == [query |-> query, context |-> context]

Init ==
    /\ mode \in {"sync", "stream", "parse"}
    /\ message \in Queries
    /\ max_iterations \in IF mode = "parse" THEN {1} ELSE 1..MaxIterations
    /\ output_context = <<>>
    /\ iteration_count = 0
    /\ response \in IF mode = "parse" THEN Responses ELSE {NoReply}
    /\ tool_decision = <<>>
    /\ pc = IF mode = "parse" THEN "parse" ELSE "start"
    /\ decided = <<>>
    /\ calls = <<>>
    /\ emitted = <<>>
    /\ event_queue = <<>>
    /\ agent_context = NoContext
    /\ tool_traces = <<>>
    /\ cpc = IF mode = "stream" THEN "poll" ELSE "run"
    /\ chunks = 0
    /\ yielded = <<>>
    /\ result = <<>>
    /\ prompts = <<>>
    /\ body = NoBody
    /\ http = None
    /\ cache = <<>>
    /\ now = 0
    /\ served = <<>>
    /\ loops = <<>>
    /\ runs = <<>>

(***************************************************************************)
(* choose_tool_result applied to one engine reply.                         *)
(***************************************************************************)
ParseReply ==
    /\ pc = "parse"
    /\ tool_decision' = choose_tool_result(response)
    /\ pc' = "parsed"
    /\ UNCHANGED <<chatvars, prompts, concvars, toolvars, mode, message, max_iterations, output_context, iteration_count,
                   response, decided, calls, emitted, event_queue, agent_context,
                   tool_traces, cpc, chunks, yielded, result>>

(***************************************************************************)
(* AgentLoop.run                                                           *)
(***************************************************************************)
\* the seed of the Context
RunStart ==
    /\ pc = "start"
    /\ output_context' = <<SeedEntry(message), Delimiter>>
    /\ pc' = "choose"
    /\ UNCHANGED <<chatvars, prompts, concvars, toolvars, mode, message, max_iterations, iteration_count, response,
                   tool_decision, decided, calls, emitted, event_queue, agent_context,
                   tool_traces, cpc, chunks, yielded, result>>

\* the head of a decision cycle: the counter, the decision, the thinking event
Choose ==
    /\ pc = "choose"
    /\ \E reply \in LoopResponses :
         /\ response' = reply
         /\ tool_decision' = choose_tool_result(reply)
    /\ iteration_count' = iteration_count + 1
    /\ decided' = Append(decided, tool_decision')
    /\ IF tool_decision' # <<>>
       THEN Callback(ThinkingEvent(iteration_count', tool_decision'))
       ELSE UNCHANGED <<emitted, event_queue>>
    /\ pc' = "check"
    /\ UNCHANGED <<chatvars, prompts, concvars, toolvars, mode, message, max_iterations, output_context, calls,
                   agent_context, tool_traces, cpc, chunks, yielded, result>>

\* the stop condition: thinking_complete and break
StopBreak ==
    /\ pc = "check"
    /\ Get(tool_decision, "tool", None) = "stop"
    /\ Callback(ThinkingComplete)
    /\ pc' = "finish"
    /\ UNCHANGED <<chatvars, prompts, concvars, toolvars, mode, message, max_iterations, output_context, iteration_count,
                   response, tool_decision, decided, calls, agent_context, tool_traces,
                   cpc, chunks, yielded, result>>

\* a faulty variant: the loop runs one cycle past the bound
LoopNext_OffByOne == IF iteration_count <= max_iterations THEN "choose" ELSE "finish"

\* the next position of the for loop after a completed cycle
LoopNext == IF iteration_count < max_iterations THEN "choose" ELSE "finish"

\* the dispatch of the decision and the accumulation of its output
ExecuteAndAccumulate ==
    /\ pc = "check"
    /\ Get(tool_decision, "tool", None) # "stop"
    /\ LET tool == Get(tool_decision, "tool", "")
           tool_name == IF tool = None THEN None ELSE Lower(tool)
       IN  \E outcome \in Outcomes(tool_name) :
             LET r == execute_tool(tool_decision, outcome, output_context)
             IN  /\ calls' = Append(calls, [tool |-> tool_name, outcome |-> outcome])
                 /\ IF r.raised
                    THEN /\ pc' = "raised"
                         /\ UNCHANGED output_context
                    ELSE /\ output_context' =
                              IF r.output # <<>>
                              THEN output_context \o r.output \o <<Separator>>
                              ELSE output_context
                         /\ pc' = LoopNext
    /\ UNCHANGED <<chatvars, prompts, concvars, toolvars, mode, message, max_iterations, iteration_count, response,
                   tool_decision, decided, emitted, event_queue, agent_context,
                   tool_traces, cpc, chunks, yielded, result>>

\* len(self.output_context), counted in pieces
Size(context) == Len(context)

\* a faulty variant: the first line of the metadata is assigned, not appended
WithMetadata_Assigned(context, iterations) ==
    <<Delimiter,
      [piece |-> "Agent loop completed", iterations |-> iterations],
      [piece |-> "Total context size", size |-> 2],
      [piece |-> "Timestamp"]>>

\* the trailing metadata
WithMetadata(context, iterations) ==
    LET c1 == context \o <<Delimiter,
                           [piece |-> "Agent loop completed", iterations |-> iterations]>>
    IN  c1 \o <<[piece |-> "Total context size", size |-> Size(c1)],
                [piece |-> "Timestamp"]>>

\* the metadata and the return; the caller stores the value in agent_context
Finish ==
    /\ pc = "finish"
    /\ output_context' = WithMetadata(output_context, iteration_count)
    /\ agent_context' = output_context'
    /\ pc' = "returned"
    /\ cpc' = IF mode = "sync" THEN "synth" ELSE cpc
    /\ UNCHANGED <<chatvars, prompts, concvars, toolvars, mode, message, max_iterations, iteration_count, response,
                   tool_decision, decided, calls, emitted, event_queue, tool_traces,
                   chunks, yielded, result>>

(***************************************************************************)
(* run_agent: the synchronous caller.                                      *)
(***************************************************************************)
\* "phrase" in agent_context: the text of a get_context block holds the
\* Context of its step
RECURSIVE Mentions(_, _)
Mentions(context, phrase) ==
    \E i \in 1..Len(context) :
        \/ context[i].piece = phrase
        \/ /\ context[i].piece = "Context requested"
           /\ Mentions(context[i].context, phrase)

\* the traces run_agent reads off the Context
ExtractTraces(context) ==
    (IF Mentions(context, "Weather function was called")
     THEN <<Trace("weather_tool")>> ELSE <<>>)
    \o (IF Mentions(context, "Currency function was called")
        THEN <<Trace("currency_convert")>> ELSE <<>>)
    \o (IF Mentions(context, "Wikipedia function was called")
        THEN <<Trace("wikipedia_search")>> ELSE <<>>)

ErrorResponse == [answer |-> "Error in agent loop", traces |-> <<>>]

\* an exception that left agent.run reaches run_agent's except clause
SyncExcept ==
    /\ mode = "sync"
    /\ cpc = "run"
    /\ pc = "raised"
    /\ result' = ErrorResponse
    /\ cpc' = "done"
    /\ UNCHANGED <<chatvars, prompts, concvars, toolvars, mode, message, max_iterations, output_context, iteration_count,
                   response, tool_decision, pc, decided, calls, emitted, event_queue,
                   agent_context, tool_traces, chunks, yielded>>

\* the synthesis call and the return of run_agent; start_chat or send_message
\* may raise, before or after the prompt went out
SyncSynthesize ==
    /\ mode = "sync"
    /\ cpc = "synth"
    /\ \/ \E text \in {"answer", ""} :
            /\ prompts' = Append(prompts, SynthesisPrompt(message, agent_context))
            /\ tool_traces' = ExtractTraces(agent_context)
            /\ result' = [answer |-> IF text # "" THEN text ELSE "No response.",
                          traces |-> tool_traces']
       \/ \E sent \in BOOLEAN :
            /\ prompts' = IF sent
                          THEN Append(prompts, SynthesisPrompt(message, agent_context))
                          ELSE prompts
            /\ result' = ErrorResponse
            /\ UNCHANGED tool_traces
    /\ cpc' = "done"
    /\ UNCHANGED <<chatvars, concvars, toolvars, mode, message, max_iterations, output_context, iteration_count,
                   response, tool_decision, pc, decided, calls, emitted, event_queue,
                   agent_context, chunks, yielded>>

(***************************************************************************)
(* run_agent_stream: the worker thread's last statement, and the generator *)
(* that chat.generate drains.                                              *)
(***************************************************************************)
\* a faulty variant: the sentinel is put when the loop has ended, before the
\* value of agent.run is stored in agent_context
PutAgentDone_BeforeStore ==
    /\ mode = "stream"
    /\ pc = "finish"
    /\ event_queue' = QueuePut(event_queue, AgentDone)
    /\ pc' = "ended"
    /\ UNCHANGED <<chatvars, prompts, concvars, toolvars, mode, message, max_iterations, output_context, iteration_count,
                   response, tool_decision, decided, calls, emitted, agent_context,
                   tool_traces, cpc, chunks, yielded, result>>

\* run_agent_thread after agent.run returned: the sentinel
PutAgentDone ==
    /\ mode = "stream"
    /\ pc = "returned"
    /\ event_queue' = QueuePut(event_queue, AgentDone)
    /\ pc' = "ended"
    /\ UNCHANGED <<chatvars, prompts, concvars, toolvars, mode, message, max_iterations, output_context, iteration_count,
                   response, tool_decision, decided, calls, emitted, agent_context,
                   tool_traces, cpc, chunks, yielded, result>>

\* event_queue.get returned an event; after the sentinel, thread.join returns
\* at once, the sentinel being the worker's last statement
PollGet ==
    /\ mode = "stream"
    /\ cpc = "poll"
    /\ event_queue # <<>>
    /\ LET event == Head(event_queue)
       IN  /\ event_queue' = Tail(event_queue)
           /\ IF event.type = "agent_done"
              THEN /\ cpc' = "synth"
                   /\ UNCHANGED <<yielded, tool_traces>>
              ELSE /\ yielded' = Append(yielded, event)
                   /\ tool_traces' = TrackToolUsage(tool_traces, event)
                   /\ UNCHANGED cpc
    /\ UNCHANGED <<chatvars, prompts, concvars, toolvars, mode, message, max_iterations, output_context, iteration_count,
                   response, tool_decision, pc, decided, calls, emitted, agent_context,
                   chunks, result>>

\* event_queue.get timed out: queue.Empty, continue
PollEmpty ==
    /\ mode = "stream"
    /\ cpc = "poll"
    /\ event_queue = <<>>
    /\ UNCHANGED vars

\* a faulty variant: a function call in the engine's reply is answered by
\* running the tool
SynthStart_CallsTool ==
    /\ mode = "stream"
    /\ cpc = "synth"
    /\ prompts' = Append(prompts, SynthesisPrompt(message, agent_context))
    /\ calls' = Append(calls, [tool |-> "weather", outcome |-> "ok"])
    /\ cpc' = "stream"
    /\ UNCHANGED <<chatvars, concvars, toolvars, mode, message, max_iterations, output_context, iteration_count,
                   response, tool_decision, pc, decided, emitted, event_queue,
                   agent_context, tool_traces, chunks, yielded, result>>

\* start_chat, the prompt and send_message(stream=True): the call of the
\* synthesis engine
SynthStart ==
    /\ mode = "stream"
    /\ cpc = "synth"
    /\ prompts' = Append(prompts, SynthesisPrompt(message, agent_context))
    /\ cpc' = "stream"
    /\ UNCHANGED <<chatvars, concvars, toolvars, mode, message, max_iterations, output_context, iteration_count,
                   response, tool_decision, pc, decided, calls, emitted, event_queue,
                   agent_context, tool_traces, chunks, yielded, result>>

\* one chunk of the synthesis stream; a chunk without text is skipped
SynthChunk ==
    /\ mode = "stream"
    /\ cpc = "stream"
    /\ chunks < MaxChunks
    /\ chunks' = chunks + 1
    /\ \/ yielded' = Append(yielded, TextEvent)
       \/ UNCHANGED yielded
    /\ UNCHANGED <<chatvars, prompts, concvars, toolvars, mode, message, max_iterations, output_context, iteration_count,
                   response, tool_decision, pc, decided, calls, emitted, event_queue,
                   agent_context, tool_traces, cpc, result>>

\* start_chat raises, or send_message or the stream does: the error event
SynthRaise ==
    /\ mode = "stream"
    /\ cpc \in {"synth", "stream"}
    /\ yielded' = Append(yielded, ErrorEvent)
    /\ cpc' = "finished"
    /\ UNCHANGED <<chatvars, prompts, concvars, toolvars, mode, message, max_iterations, output_context, iteration_count,
                   response, tool_decision, pc, decided, calls, emitted, event_queue,
                   agent_context, tool_traces, chunks, result>>

\* a faulty variant: the traces event is sent also when no trace was recorded
FinalTraces_Unguarded(traces) == <<TracesEvent(traces)>>

\* "if tool_traces: yield traces"
FinalTraces(traces) == IF traces # <<>> THEN <<TracesEvent(traces)>> ELSE <<>>

\* the synthesis stream is exhausted: the final traces
SynthEnd ==
    /\ mode = "stream"
    /\ cpc = "stream"
    /\ yielded' = yielded \o FinalTraces(tool_traces)
    /\ cpc' = "finished"
    /\ UNCHANGED <<chatvars, prompts, concvars, toolvars, mode, message, max_iterations, output_context, iteration_count,
                   response, tool_decision, pc, decided, calls, emitted, event_queue,
                   agent_context, tool_traces, chunks, result>>

\* chat.generate after the generator is exhausted: the sentinel frame
GenerateDone ==
    /\ mode = "stream"
    /\ cpc = "finished"
    /\ yielded' = Append(yielded, DoneFrame)
    /\ cpc' = "done"
    /\ UNCHANGED <<chatvars, prompts, concvars, toolvars, mode, message, max_iterations, output_context, iteration_count,
                   response, tool_decision, pc, decided, calls, emitted, event_queue,
                   agent_context, tool_traces, chunks, result>>

\* the thread that executes AgentLoop.run
Worker == RunStart \/ Choose \/ StopBreak \/ ExecuteAndAccumulate \/ Finish \/ PutAgentDone

\* the generator of a streamed request
StreamCaller ==
    \/ PollGet \/ PollEmpty \/ SynthStart \/ SynthChunk \/ SynthRaise \/ SynthEnd
    \/ GenerateDone

\* the thread of the request
Caller == SyncExcept \/ SyncSynthesize \/ StreamCaller

Next == ParseReply \/ Worker \/ Caller

Spec == Init /\ [][Next]_vars

\* both threads are scheduled and the client keeps reading the stream
FairSpec == Spec /\ WF_vars(Worker) /\ WF_vars(Caller)

(***************************************************************************)
(* The tool collaborators on their own: tools/weather.py, tools/currency.py*)
(* and tools/wikipedia.py over cache.py.  A call is made with arguments    *)
(* from small sets, at a time of the clock, against an upstream service    *)
(* that answers as it pleases.  Numbers are written as strings, the        *)
(* amount excepted, which is multiplied.                                   *)
(***************************************************************************)
MaxCalls == 2            \* the collaborators are called at most MaxCalls times

WeatherTtl == 300        \* cache_set(k, out, ttl=300)

WikipediaTtl == 3600     \* cache_set(cache_key, result, ttl=3600)

WikipediaErrorTtl == 300 \* cache_set(cache_key, result, ttl=300)

DefaultSentences == 3    \* sentences: int = 3

\* what a call gives its caller: a payload, or an exception; and the cache
\* as the call leaves it
ToolReturn(payload, store) == [raised |-> FALSE, payload |-> payload, cache |-> store]

ToolRaise(store) == [raised |-> TRUE, payload |-> <<>>, cache |-> store]

\* the parameter names of the cache keys, sorted
ParamNames == <<"city", "country", "query", "sentences", "state">>

\* json.dumps(payload, sort_keys=True): the items in the order of their keys,
\* a number written out
SortedItems(payload) ==
    LET Present(name) == name \in DOMAIN payload
        names == SelectSeq(ParamNames, Present)
    IN  [i \in 1..Len(names) |->
            <<names[i], IF names[i] = "sentences" THEN ToString(payload[names[i]])
                        ELSE payload[names[i]]>>]

\* cache.key_for: the prefix and the digest of the sorted parameters
key_for(prefix, payload) == [prefix |-> prefix, digest |-> SortedItems(payload)]

\* json.dumps / json.loads of a payload of strings, numbers, null and booleans
JsonDumps(value) == [json |-> value]

JsonParse(text) == text.json

\* "if cached := cache_get(k)": the key is set and has not expired
CacheHit(store, key, time) == key \in DOMAIN store /\ time < store[key].expires

cache_get(store, key) == store[key].value

\* cache_set: _redis.setex(key, ttl, json.dumps(value))
cache_set(store, key, value, ttl, time) ==
    [k \in DOMAIN store \cup {key} |->
        IF k = key THEN [value |-> JsonDumps(value), expires |-> time + ttl]
        ELSE store[k]]

\* ", ".join(parts), and the f-string of the "City not found" payload after
\* .strip(", "), for the names of the model
Joined(parts) ==
    CASE parts = <<"Paris">> -> "Paris"
      [] parts = <<"Paris", "France">> -> "Paris, France"
      [] parts = <<"Paris", "Texas", "United States">> -> "Paris, Texas, United States"
      [] parts = <<"Paris", "", "">> -> "Paris"
      [] parts = <<"Paris", "", "France">> -> "Paris, , France"

\* tools/utils.py is not at hand: surrounding blanks go, the first letter is
\* capitalized
normalize_city(city) ==
    CASE city = " paris " -> "Paris"
      [] OTHER -> city

\* "a.lower() not in b.lower()" on the names of the model
Upper(s) ==
    CASE s = "usd" -> "USD"
      [] s = "eur" -> "EUR"
      [] OTHER -> s

LowerIn(a, b) == Lower(a) = Lower(b)

\* the geocoder's results
GeoTexas ==
    [name |-> "Paris", admin1 |-> "Texas", country |-> "United States",
     latitude |-> "33.66", longitude |-> "-95.55"]

GeoFrance ==
    [name |-> "Paris", country |-> "France", latitude |-> "48.85", longitude |-> "2.35"]

\* the upstream services of get_weather: the geocoder raises, finds nothing
\* or finds two places; the forecast raises or reports a temperature
WeatherUpstreams ==
    { [geocode |-> "raise", results |-> <<>>, forecast |-> "raise"],
      [geocode |-> "ok", results |-> <<>>, forecast |-> "raise"] }
    \cup { [geocode |-> "ok", results |-> <<GeoTexas, GeoFrance>>, forecast |-> f] :
              f \in {"raise", "18", "21"} }

\* a result passes the country and state filter of lines 49-60
PassesFilter(r, state, country) ==
    /\ ~(Truthy(country) /\ Truthy(Get(r, "country", None))
            /\ ~LowerIn(country, r["country"]))
    /\ ~(Truthy(state) /\ Truthy(Get(r, "admin1", None))
            /\ ~LowerIn(state, r["admin1"]))

\* the place the loop over search_queries settles on, every query getting
\* the same reply: the first result that passes the filter, else the first
GeoChosen(results, state, country) ==
    LET passing == {i \in 1..Len(results) : PassesFilter(results[i], state, country)}
    IN  IF (Truthy(country) \/ Truthy(state)) /\ passing # {}
        THEN results[CHOOSE i \in passing : \A j \in passing : i <= j]
        ELSE results[1]

location_name(r) ==
    Joined(<<Get(r, "name", "Paris")>>
           \o (IF Truthy(Get(r, "admin1", None)) THEN <<r["admin1"]>> ELSE <<>>)
           \o (IF Truthy(Get(r, "country", None)) THEN <<r["country"]>> ELSE <<>>))

weather_cache_params(city, state, country) ==
    [k \in {"city"} \cup (IF Truthy(state) THEN {"state"} ELSE {})
                    \cup (IF Truthy(country) THEN {"country"} ELSE {}) |->
        IF k = "city" THEN city ELSE IF k = "state" THEN state ELSE country]

\* tools/weather.py get_weather(city, state, country) at `time`, with the cache
\* `store`
tools_get_weather(city0, state, country, upstream, store, time) ==
    LET city == normalize_city(city0)
        k == key_for("weather", weather_cache_params(city, state, country))
    IN  IF CacheHit(store, k, time) THEN ToolReturn(JsonParse(cache_get(store, k)), store)
        ELSE IF upstream.geocode = "raise" THEN ToolRaise(store)
        ELSE IF upstream.results = <<>>
             THEN ToolReturn([city |-> Joined(<<city,
                                                IF Truthy(state) THEN state ELSE "",
                                                IF Truthy(country) THEN country ELSE "">>),
                              error |-> "City not found"], store)
        ELSE IF upstream.forecast = "raise" THEN ToolRaise(store)
        ELSE LET r == GeoChosen(upstream.results, state, country)
                 out == [city |-> location_name(r),
                         latitude |-> r.latitude,
                         longitude |-> r.longitude,
                         temperature_c |-> upstream.forecast,
                         windspeed_kmh |-> "11",
                         conditions_code |-> "3"]
             IN  ToolReturn(out, cache_set(store, k, out, WeatherTtl, time))

\* the rate service of convert: it raises, answers without "rates", or with
\* a table of rates (hundredths) for the upper-case codes
RateUpstreams ==
    { [request |-> "raise", r |-> <<>>],
      [request |-> "ok", r |-> [result |-> "error"]],
      [request |-> "ok", r |-> [rates |-> [GBP |-> 79], date |-> "2025-01-01"]],
      [request |-> "ok", r |-> [rates |-> [EUR |-> 92, GBP |-> 79], date |-> "2025-01-01"]],
      [request |-> "ok", r |-> [rates |-> [EUR |-> 95, GBP |-> 79], date |-> "2025-01-02"]] }

\* "rates" in r and dst in r["rates"]
HasRate(r, dst) == "rates" \in DOMAIN r /\ dst \in DOMAIN r["rates"]

\* a faulty variant: the except clause is missing
convert_NoExcept(amount, src0, dst0, upstream) ==
    LET src == Upper(src0)
        dst == Upper(dst0)
    IN  IF upstream.request = "raise" THEN [raised |-> TRUE, payload |-> <<>>]
        ELSE [raised |-> FALSE,
              payload |->
                 IF HasRate(upstream.r, dst)
                 THEN [amount |-> amount, from |-> src, to |-> dst,
                       result |-> ToString(amount * upstream.r["rates"][dst]),
                       date |-> Get(upstream.r, "date", None)]
                 ELSE [amount |-> amount, from |-> src, to |-> dst,
                       result |-> None, date |-> None,
                       error |-> "Unable to convert"]]

\* tools/currency.py convert(amount, src, dst); the result is in hundredths
convert(amount, src0, dst0, upstream) ==
    LET src == Upper(src0)
        dst == Upper(dst0)
    IN  [raised |-> FALSE,
         payload |->
            IF upstream.request = "raise"
            THEN [amount |-> amount, from |-> src, to |-> dst,
                  result |-> None, date |-> None, error |-> "exception text"]
            ELSE IF HasRate(upstream.r, dst)
            THEN [amount |-> amount, from |-> src, to |-> dst,
                  result |-> ToString(amount * upstream.r["rates"][dst]),
                  date |-> Get(upstream.r, "date", None)]
            ELSE [amount |-> amount, from |-> src, to |-> dst,
                  result |-> None, date |-> None,
                  error |-> "Unable to convert"]]

\* the wikipedia library: the search finds nothing, the page and its summary
\* are found, no page can be fetched, the summary raises PageError or
\* DisambiguationError, or anything else is raised
WikipediaUpstreams == {"no_results", "found", "no_page", "page_error", "exception"}

\* "trends", "latest" or "current" occurs in query.lower()
HasTrendWord(query) == query = "latest Louvre"

\* the query without those words and without "in", lower-cased
Simplified(query) ==
    CASE query = "latest Louvre" -> "louvre"
      [] OTHER -> query

WikipediaError(text, query) == [error |-> text, query |-> query, success |-> FALSE]

\* tools/wikipedia.py search_wikipedia(query, sentences) at `time`, with the
\* cache `store`
RECURSIVE tools_search_wikipedia(_, _, _, _, _)
tools_search_wikipedia(query, sentences, upstream, store, time) ==
    LET cache_key == key_for("wikipedia", [query |-> query, sentences |-> sentences])
        Cached(found, ttl) ==
            ToolReturn(found, cache_set(store, cache_key, found, ttl, time))
    IN  IF CacheHit(store, cache_key, time)
        THEN ToolReturn(JsonParse(cache_get(store, cache_key)), store)
        ELSE IF upstream = "exception"
        THEN ToolReturn(WikipediaError("Error accessing Wikipedia", query), store)
        ELSE IF upstream = "no_results"
        THEN Cached(WikipediaError("No Wikipedia articles found", query), WikipediaErrorTtl)
        ELSE IF upstream = "no_page"
        THEN IF HasTrendWord(query) /\ Simplified(query) # query
             THEN tools_search_wikipedia(Simplified(query), sentences, upstream, store, time)
             ELSE Cached(WikipediaError("Could not retrieve Wikipedia article", query),
                         WikipediaErrorTtl)
        ELSE IF upstream = "page_error"
        THEN Cached(WikipediaError("No Wikipedia page exists", query), WikipediaErrorTtl)
        ELSE Cached([title |-> "Louvre", summary |-> "summary", url |-> "url",
                     success |-> TRUE], WikipediaTtl)

\* the arguments the model calls the collaborators with
Cities == {"Paris", " paris "}

Countries == {None, "France"}

Amounts == {0, 100}

SourceCodes == {"USD", "usd"}

TargetCodes == {"EUR"}

WikipediaQueries == {"Louvre", "latest Louvre"}

\* the time that passes before a call
Elapsed == {0, WeatherTtl}

Served(tool, args, time, r) ==
    [tool |-> tool, args |-> args, at |-> time, raised |-> r.raised, payload |-> r.payload]

CallWeather ==
    /\ mode = "tools"
    /\ Len(served) < MaxCalls
    /\ \E city \in Cities, country \in Countries, upstream \in WeatherUpstreams,
          d \in Elapsed :
         LET r == tools_get_weather(city, None, country, upstream, cache, now + d)
         IN  /\ now' = now + d
             /\ cache' = r.cache
             /\ served' = Append(served,
                    Served("weather", [city |-> city, country |-> country], now', r))
    /\ UNCHANGED <<chatvars, prompts, concvars, mode, message, max_iterations, output_context, iteration_count,
                   response, tool_decision, pc, decided, calls, emitted, event_queue,
                   agent_context, tool_traces, cpc, chunks, yielded, result>>

CallConvert ==
    /\ mode = "tools"
    /\ Len(served) < MaxCalls
    /\ \E amount \in Amounts, src \in SourceCodes, dst \in TargetCodes,
          upstream \in RateUpstreams, d \in Elapsed :
         LET r == convert(amount, src, dst, upstream)
         IN  /\ now' = now + d
             /\ served' = Append(served,
                    Served("currency", [amount |-> amount, from |-> src, to |-> dst],
                           now', r) @@ [upstream |-> upstream])
    /\ UNCHANGED <<chatvars, prompts, concvars, mode, message, max_iterations, output_context, iteration_count,
                   response, tool_decision, pc, decided, calls, emitted, event_queue,
                   agent_context, tool_traces, cpc, chunks, yielded, result, cache>>

CallWikipedia ==
    /\ mode = "tools"
    /\ Len(served) < MaxCalls
    /\ \E query \in WikipediaQueries, upstream \in WikipediaUpstreams, d \in Elapsed :
         LET r == tools_search_wikipedia(query, DefaultSentences, upstream, cache, now + d)
         IN  /\ now' = now + d
             /\ cache' = r.cache
             /\ served' = Append(served,
                    Served("wikipedia", [query |-> query, sentences |-> DefaultSentences],
                           now', r))
    /\ UNCHANGED <<chatvars, prompts, concvars, mode, message, max_iterations, output_context, iteration_count,
                   response, tool_decision, pc, decided, calls, emitted, event_queue,
                   agent_context, tool_traces, cpc, chunks, yielded, result>>

\* the collaborators are idle, nothing is cached
ToolInit ==
    /\ mode = "tools"
    /\ message \in Queries
    /\ max_iterations = 1
    /\ output_context = <<>>
    /\ iteration_count = 0
    /\ response = NoReply
    /\ tool_decision = <<>>
    /\ pc = "idle"
    /\ decided = <<>>
    /\ calls = <<>>
    /\ emitted = <<>>
    /\ event_queue = <<>>
    /\ agent_context = NoContext
    /\ tool_traces = <<>>
    /\ cpc = "idle"
    /\ chunks = 0
    /\ yielded = <<>>
    /\ result = <<>>
    /\ prompts = <<>>
    /\ body = NoBody
    /\ http = None
    /\ cache = <<>>
    /\ now = 0
    /\ served = <<>>
    /\ loops = <<>>
    /\ runs = <<>>

ToolNext == CallWeather \/ CallConvert \/ CallWikipedia

ToolSpec == ToolInit /\ [][ToolNext]_vars

(***************************************************************************)
(* Two requests at once.  Each call of run_agent_stream has its own locals *)
(* (event_queue, agent_context, tool_traces) and its worker thread builds  *)
(* its own AgentLoop; the threads of the two requests interleave freely.   *)
(* loops[o] holds the fields of AgentLoop instance o, runs[r] the locals   *)
(* of request r, of its worker thread and of its call of AgentLoop.run.    *)
(***************************************************************************)
Requests == {1, 2}

\* the message of request r
Query(r) == IF r = 1 THEN "weather in Paris" ELSE "rates in Rome"

\* a faulty variant: one AgentLoop, built once, serves every request
Owner_Shared(r) == 1

\* the AgentLoop instance of request r: agent = AgentLoop(loop_model)
Owner(r) == r

\* the decisions the engine gives the two runs
ConcurrentDecisions ==
    { [tool |-> "weather", city |-> "Paris", reason |-> "check conditions"],
      [tool |-> "get_context"],
      [tool |-> "stop", stop |-> TRUE, reason |-> "done"] }

\* what their tool calls come to: a payload, or an exception
ConcurrentOutcomes(tool_name) == Outcomes(tool_name) \ {"error"}

\* AgentLoop.__init__
NewLoop == [output_context |-> <<>>, iteration_count |-> 0]

\* the locals of a request whose worker thread has just been started
NewRun ==
    [pc |-> "start", cpc |-> "poll", iteration |-> 0, tool_decision |-> <<>>,
     decided |-> <<>>, outcomes |-> <<>>, emitted |-> <<>>, event_queue |-> <<>>,
     yielded |-> <<>>, tool_traces |-> <<>>, agent_context |-> NoContext]

\* thinking_callback(event) of request r
Put(run, event) ==
    [run EXCEPT !.emitted = Append(@, event),
                !.event_queue = QueuePut(@, event)]

\* the variables of the single request, which stay as they are
requestvars ==
    <<mode, message, max_iterations, output_context, iteration_count, response,
      tool_decision, pc, decided, calls, emitted, event_queue, agent_context,
      tool_traces, cpc, chunks, yielded, result, prompts, body, http>>

\* AgentLoop.run of request r: the seed of the Context
ConcRunStart(r) ==
    /\ runs[r].pc = "start"
    /\ loops' = [loops EXCEPT ![Owner(r)].output_context =
                                  <<SeedEntry(Query(r)), Delimiter>>]
    /\ runs' = [runs EXCEPT ![r].pc = "choose"]
    /\ UNCHANGED <<requestvars, toolvars>>

\* the head of a decision cycle
ConcChoose(r) ==
    /\ runs[r].pc = "choose"
    /\ \E decision \in ConcurrentDecisions :
         LET count == runs[r].iteration + 1
             chosen == [runs[r] EXCEPT !.pc = "check",
                                       !.iteration = count,
                                       !.tool_decision = decision,
                                       !.decided = Append(@, decision)]
         IN  /\ loops' = [loops EXCEPT ![Owner(r)].iteration_count = count]
             /\ runs' = [runs EXCEPT ![r] =
                            Put(chosen, ThinkingEvent(loops'[Owner(r)].iteration_count,
                                                      decision))]
    /\ UNCHANGED <<requestvars, toolvars>>

\* the stop condition
ConcStopBreak(r) ==
    /\ runs[r].pc = "check"
    /\ Get(runs[r].tool_decision, "tool", None) = "stop"
    /\ runs' = [runs EXCEPT ![r] = Put([runs[r] EXCEPT !.pc = "finish"], ThinkingComplete)]
    /\ UNCHANGED loops
    /\ UNCHANGED <<requestvars, toolvars>>

\* the dispatch of the decision and the accumulation of its output
ConcExecute(r) ==
    /\ runs[r].pc = "check"
    /\ Get(runs[r].tool_decision, "tool", None) # "stop"
    /\ \E outcome \in ConcurrentOutcomes(Lower(runs[r].tool_decision["tool"])) :
         LET context == loops[Owner(r)].output_context
             out == execute_tool(runs[r].tool_decision, outcome, context)
         IN  /\ loops' = [loops EXCEPT ![Owner(r)].output_context =
                             IF out.output # <<>>
                             THEN @ \o out.output \o <<Separator>>
                             ELSE @]
             /\ runs' = [runs EXCEPT
                            ![r].outcomes = Append(@, outcome),
                            ![r].pc = IF runs[r].iteration < max_iterations
                                      THEN "choose" ELSE "finish"]
    /\ UNCHANGED <<requestvars, toolvars>>

\* the metadata, the return, and the worker's sentinel
ConcFinish(r) ==
    /\ runs[r].pc = "finish"
    /\ loops' = [loops EXCEPT ![Owner(r)].output_context =
                                  WithMetadata(@, loops[Owner(r)].iteration_count)]
    /\ runs' = [runs EXCEPT ![r].pc = "ended",
                            ![r].agent_context = loops'[Owner(r)].output_context,
                            ![r].event_queue = QueuePut(@, AgentDone)]
    /\ UNCHANGED <<requestvars, toolvars>>

\* the consumer of request r takes an event off its queue
ConcPollGet(r) ==
    /\ runs[r].cpc = "poll"
    /\ runs[r].event_queue # <<>>
    /\ LET event == Head(runs[r].event_queue)
       IN  runs' = [runs EXCEPT
                       ![r].event_queue = Tail(@),
                       ![r].cpc = IF event.type = "agent_done" THEN "synth" ELSE @,
                       ![r].yielded = IF event.type = "agent_done" THEN @
                                      ELSE Append(@, event),
                       ![r].tool_traces = IF event.type = "agent_done" THEN @
                                          ELSE TrackToolUsage(@, event)]
    /\ UNCHANGED loops
    /\ UNCHANGED <<requestvars, toolvars>>

\* the final traces of request r
ConcSynthEnd(r) ==
    /\ runs[r].cpc = "synth"
    /\ runs' = [runs EXCEPT ![r].cpc = "finished",
                            ![r].yielded = @ \o FinalTraces(runs[r].tool_traces)]
    /\ UNCHANGED loops
    /\ UNCHANGED <<requestvars, toolvars>>

ConcInit ==
    /\ mode = "concurrent"
    /\ message \in Queries
    /\ max_iterations \in 1..MaxIterations
    /\ output_context = <<>>
    /\ iteration_count = 0
    /\ response = NoReply
    /\ tool_decision = <<>>
    /\ pc = "idle"
    /\ decided = <<>>
    /\ calls = <<>>
    /\ emitted = <<>>
    /\ event_queue = <<>>
    /\ agent_context = NoContext
    /\ tool_traces = <<>>
    /\ cpc = "idle"
    /\ chunks = 0
    /\ yielded = <<>>
    /\ result = <<>>
    /\ prompts = <<>>
    /\ body = NoBody
    /\ http = None
    /\ cache = <<>>
    /\ now = 0
    /\ served = <<>>
    /\ loops = [o \in {Owner(r) : r \in Requests} |-> NewLoop]
    /\ runs = [r \in Requests |-> NewRun]

\* the worker thread of request r
ConcWorker(r) ==
    ConcRunStart(r) \/ ConcChoose(r) \/ ConcStopBreak(r) \/ ConcExecute(r) \/ ConcFinish(r)

\* the generator of request r
ConcCaller(r) == ConcPollGet(r) \/ ConcSynthEnd(r)

ConcNext == \E r \in Requests : ConcWorker(r) \/ ConcCaller(r)

ConcurrentSpec == ConcInit /\ [][ConcNext]_vars

(***************************************************************************)
(* The /chat route of app.py: the body is read, the message is tested and  *)
(* the streamed run is started.  A JSON value is its type and its text.    *)
(***************************************************************************)
ChatIterations == 1   \* max_iterations ranges over 1..ChatIterations behind /chat

Absent == [type |-> "absent", text |-> ""]

JsonNull == [type |-> "null", text |-> "None"]

JsonString(text) == [type |-> "string", text |-> text]

JsonNumber(text) == [type |-> "number", text |-> text]

JsonArray(text) == [type |-> "array", text |-> text]

\* Python's truth value of a parsed JSON value
JsonTruthy(v) ==
    CASE v.type = "string" -> v.text # ""
      [] v.type = "number" -> v.text # "0"
      [] v.type = "array" -> v.text # "[]"
      [] OTHER -> FALSE

\* dict.get(key, default) on the parsed body
BodyGet(value, default) == IF value.type = "absent" THEN default ELSE value

MessageValues ==
    {Absent, JsonNull, JsonString(""), JsonString("weather in Paris"), JsonNumber("5")}

HistoryValues == {Absent, JsonArray("[]"), JsonString("abc")}

\* the bodies a client can post: an object, JSON null, a JSON array, no JSON
Bodies ==
    { [kind |-> "object", message |-> m, history |-> h] :
          m \in MessageValues, h \in HistoryValues }
    \cup { [kind |-> k, message |-> Absent, history |-> Absent] :
              k \in {"null", "array", "malformed"} }

\* chat: get_json raises BadRequest on a body that is not JSON, "or {}" turns a
\* falsy body into the empty dict, .get raises on a body that is a list, "not
\* msg" rejects a falsy message; otherwise the response streams run_agent_stream
ChatRoute ==
    /\ mode = "chat"
    /\ cpc = "route"
    /\ IF body.kind = "malformed"
       THEN /\ http' = "400 Bad Request"
            /\ cpc' = "done"
            /\ UNCHANGED <<mode, message, pc>>
       ELSE IF body.kind = "array"
       THEN /\ http' = "500 Internal Server Error"
            /\ cpc' = "done"
            /\ UNCHANGED <<mode, message, pc>>
       ELSE LET msg == BodyGet(body.message, JsonString(""))
            IN  IF ~JsonTruthy(msg)
                THEN /\ http' = "400 message is required"
                     /\ cpc' = "done"
                     /\ UNCHANGED <<mode, message, pc>>
                ELSE /\ http' = "200 OK"
                     /\ mode' = "stream"
                     /\ message' = msg.text
                     /\ pc' = "start"
                     /\ cpc' = "poll"
    /\ UNCHANGED <<body, prompts, concvars, toolvars, max_iterations, output_context,
                   iteration_count, response, tool_decision, decided, calls, emitted,
                   event_queue, agent_context, tool_traces, chunks, yielded, result>>

\* the request has arrived at the route
ChatInit ==
    /\ mode = "chat"
    /\ message = ""
    /\ max_iterations \in 1..ChatIterations
    /\ output_context = <<>>
    /\ iteration_count = 0
    /\ response = NoReply
    /\ tool_decision = <<>>
    /\ pc = "idle"
    /\ decided = <<>>
    /\ calls = <<>>
    /\ emitted = <<>>
    /\ event_queue = <<>>
    /\ agent_context = NoContext
    /\ tool_traces = <<>>
    /\ cpc = "route"
    /\ chunks = 0
    /\ yielded = <<>>
    /\ result = <<>>
    /\ prompts = <<>>
    /\ body \in Bodies
    /\ http = None
    /\ cache = <<>>
    /\ now = 0
    /\ served = <<>>
    /\ loops = <<>>
    /\ runs = <<>>

ChatNext == ChatRoute \/ Worker \/ StreamCaller

ChatSpec == ChatInit /\ [][ChatNext]_vars

(***************************************************************************)
(* Vocabulary of the properties.                                           *)
(***************************************************************************)
\* AgentLoop.run has ended, by a return or by an exception
RunEnded == pc \in {"returned", "ended", "raised"}

RunReturned == pc \in {"returned", "ended"}

\* the decision of cycle i is the stop decision the loop looks for
IsStop(decision) == Get(decision, "tool", None) = "stop"

\* the tool blocks appended to a Context: each is followed by its separator
ToolBlocks(context) ==
    Cardinality({i \in 1..Len(context) : context[i] = Separator})

\* the Context ends with the metadata block that records `iterations`
EndsWithMetadata(context, iterations) ==
    /\ Len(context) >= 4
    /\ context[Len(context) - 3] = Delimiter
    /\ context[Len(context) - 2] =
           [piece |-> "Agent loop completed", iterations |-> iterations]
    /\ context[Len(context) - 1].piece = "Total context size"
    /\ context[Len(context)].piece = "Timestamp"

StartsWithSeed(context) ==
    /\ Len(context) >= 2
    /\ context[1] = SeedEntry(message)
    /\ context[2] = Delimiter

CountOf(events, type) ==
    Cardinality({i \in 1..Len(events) : events[i].type = type})

(***************************************************************************)
(* C1.  For every step bound N >= 1 and every Decision Engine that never   *)
(* returns a decision with tool "stop", AgentLoop.run performs exactly N   *)
(* decision cycles and N dispatches, appends the metadata and returns.     *)
(* The statement fails on the code: a decision whose tool is not a string  *)
(* makes execute_tool raise (C6), and the run ends in its first cycle.     *)
(***************************************************************************)
C1_ExhaustedAfterN ==
    (RunEnded /\ \A i \in 1..Len(decided) : ~IsStop(decided[i]))
        => /\ pc # "raised"
           /\ iteration_count = max_iterations
           /\ Len(decided) = max_iterations
           /\ Len(calls) = max_iterations
           /\ EndsWithMetadata(output_context, max_iterations)

(***************************************************************************)
(* C2.  If the first stop decision is returned at step k, the returned     *)
(* Context is the seed entry, exactly k-1 tool blocks (one per earlier     *)
(* decision, whatever tool it named) and the metadata, and exactly one     *)
(* thinking_complete event is emitted.                                     *)
(* The statement fails on the code: a decision {"tool": "STOP"} is not the *)
(* loop's stop, is dispatched, and execute_tool answers it with the empty  *)
(* string, which appends no block.                                         *)
(***************************************************************************)
C2_StopAtStepK ==
    (RunReturned /\ Len(decided) >= 1 /\ IsStop(decided[Len(decided)]))
        => /\ StartsWithSeed(output_context)
           /\ ToolBlocks(output_context) = Len(decided) - 1
           /\ Len(output_context) = 2 + 2 * (Len(decided) - 1) + 4
           /\ EndsWithMetadata(output_context, Len(decided))
           /\ HasCallback => CountOf(emitted, "thinking_complete") = 1

(***************************************************************************)
(* C3.  In run_agent_stream, whenever the worker thread has ended, by      *)
(* returning from AgentLoop.run or by an exception raised inside it, the   *)
(* consumer eventually leaves its polling loop.                            *)
(* The statement fails on the code: the loop ends on the sentinel only,    *)
(* and a worker that died of an exception never puts it.                   *)
(***************************************************************************)
C3_ConsumerLeavesPolling ==
    [](( mode = "stream" /\ pc \in {"ended", "raised"} ) => <>(cpc # "poll"))

(***************************************************************************)
(* C4.  An exception escaping AgentLoop.run is surfaced to the caller as a *)
(* terminal error: an error event in run_agent_stream, an error response   *)
(* in run_agent.                                                           *)
(* The statement fails on the code in run_agent_stream: the exception ends *)
(* the worker thread only, no error event is ever produced.                *)
(***************************************************************************)
HarnessErrorSurfaced ==
    \/ mode = "sync" /\ result = ErrorResponse
    \/ mode = "stream" /\ \E i \in 1..Len(yielded) : yielded[i] = ErrorEvent

C4_HarnessErrorSurfaced == (pc = "raised") ~> HarnessErrorSurfaced

(***************************************************************************)
(* C6.  For every decision mapping, also one whose tool field is missing,  *)
(* null or not a string, execute_tool returns a result string and no       *)
(* exception propagates from it to AgentLoop.run.                          *)
(* The statement fails on the code: .lower() is called on the tool value   *)
(* before the try block.                                                   *)
(***************************************************************************)
C6_NoExceptionLeavesExecuteTool == pc # "raised"

(***************************************************************************)
(* C5.  choose_tool_result always returns a decision: when the engine call *)
(* raises, or the reply holds no "{" or no "}", or the text from the first *)
(* "{" to the last "}" is not valid JSON, it returns the default stop      *)
(* decision, and a run ends at that step with the Context accumulated so   *)
(* far.                                                                    *)
(***************************************************************************)
Positions(text, c) == {i \in 1..Len(text) : text[i] = c}

Min(S) == CHOOSE x \in S : \A y \in S : x <= y

Max(S) == CHOOSE x \in S : \A y \in S : x >= y

\* the reply's text from its first "{" to its last "}"
Extracted(text) ==
    LET first == Min(Positions(text, "{"))
        last == Max(Positions(text, "}"))
    IN  [i \in 1..(last - first + 1) |-> text[first + i - 1]]

Unparseable(reply) ==
    \/ reply.raises
    \/ Positions(reply.text, "{") = {}
    \/ Positions(reply.text, "}") = {}
    \/ ~IsJsonObject(Extracted(reply.text))

C5_UnparseableReplyStops ==
    /\ [](pc \in {"parsed", "check"} /\ Unparseable(response)
             => tool_decision = StopDefault)
    /\ [][(pc = "check" /\ Unparseable(response) /\ pc' # pc)
             => /\ pc' = "finish"
                /\ output_context' = output_context
                /\ iteration_count' = iteration_count]_vars

\* a run whose second reply cannot be parsed stops there, with the one block
\* of its first step
C5_Witness ==
    /\ pc = "finish"
    /\ Unparseable(response)
    /\ ~response.raises
    /\ Len(decided) = 2
    /\ ToolBlocks(output_context) = 1

(***************************************************************************)
(* C7.  When a tool collaborator raises, or returns a payload with an      *)
(* error, at step i < N, the error text is appended to the Context as an   *)
(* ordinary block and the loop goes on to the decision of step i+1; a      *)
(* tool-level failure never terminates the run.                            *)
(***************************************************************************)
Dispatched == Len(calls') = Len(calls) + 1

LastCall == calls'[Len(calls')]

\* the Context grew by exactly one block and its separator
AppendedBlock ==
    /\ Len(output_context') = Len(output_context) + 2
    /\ SubSeq(output_context', 1, Len(output_context)) = output_context
    /\ output_context'[Len(output_context')] = Separator

NewBlock == output_context'[Len(output_context') - 1]

C7_ToolFailureContinues ==
    [][(Dispatched /\ LastCall.outcome \in {"raise", "error"})
          => /\ AppendedBlock
             /\ NewBlock.error # ""
             /\ pc' = IF iteration_count < max_iterations THEN "choose" ELSE "finish"]_vars

\* the first step's collaborator raised and the second decision has been made
C7_Witness ==
    /\ Len(calls) >= 1
    /\ calls[1].outcome = "raise"
    /\ output_context[3].piece = "Error executing"
    /\ iteration_count = 2
    /\ pc = "check"

(***************************************************************************)
(* C8.  As stated: a decision naming a tool outside {weather, currency,    *)
(* wikipedia, get_context, stop} yields an "unknown tool" result that is   *)
(* appended to the Context, and the loop continues.  execute_tool compares *)
(* the lowercased name, so "Weather" runs the weather tool and "STOP"      *)
(* yields the empty result: the statement fails for them.                  *)
(***************************************************************************)
RecognizedTools == {"weather", "currency", "wikipedia", "get_context", "stop"}

NamesATool(decision) == "tool" \in DOMAIN decision /\ decision["tool"] # None

UnknownToolAppended ==
    /\ AppendedBlock
    /\ NewBlock.piece = "Unknown tool"
    /\ NewBlock.tool = Lower(tool_decision["tool"])
    /\ pc' = IF iteration_count < max_iterations THEN "choose" ELSE "finish"

C8_OutsideTheNamesIsUnknown ==
    [][(Dispatched /\ NamesATool(tool_decision)
            /\ tool_decision["tool"] \notin RecognizedTools)
          => UnknownToolAppended]_vars

(***************************************************************************)
(* C8, amended.  A decision naming a tool that, ignoring letter case, is   *)
(* outside {weather, currency, wikipedia, get_context, stop} yields a      *)
(* non-empty "unknown tool" result that is appended to the Context, and    *)
(* the loop continues with the next step: the run ends only by a later     *)
(* stop decision or by the step bound.                                     *)
(***************************************************************************)
C8_UnrecognizedIsUnknown ==
    [][(Dispatched /\ NamesATool(tool_decision)
            /\ Lower(tool_decision["tool"]) \notin RecognizedTools)
          => UnknownToolAppended]_vars

\* the first step named an unknown tool and the second decision has been made
C8_Witness ==
    /\ Len(decided) = 2
    /\ decided[1] = [tool |-> "flights", reason |-> "find a flight"]
    /\ output_context[3] = [piece |-> "Unknown tool", tool |-> "flights"]
    /\ pc = "check"

(***************************************************************************)
(* C9.  Every event the loop emits through the thinking callback is        *)
(* delivered to the single consumer of run_agent_stream exactly once and   *)
(* in emission order: at every moment the events delivered so far,         *)
(* followed by the events still queued, are the events emitted so far.     *)
(* Every loop event is delivered before the first text event.              *)
(***************************************************************************)
IsLoopEvent(event) == event.type \in {"thinking", "thinking_complete"}

LoopEventsOf(events) == SelectSeq(events, IsLoopEvent)

C9_DeliveredOnceInOrder ==
    mode = "stream" =>
        /\ LoopEventsOf(yielded) \o LoopEventsOf(event_queue) = emitted
        /\ (\E i \in 1..Len(yielded) : yielded[i].type = "text")
              => /\ LoopEventsOf(yielded) = emitted
                 /\ pc = "ended"
                 /\ \A i, j \in 1..Len(yielded) :
                        (i < j /\ yielded[i].type = "text") => ~IsLoopEvent(yielded[j])

\* the consumer has delivered the first step's event while the worker is in
\* its second decision cycle
C9_Witness ==
    /\ mode = "stream"
    /\ pc = "check"
    /\ iteration_count = 2
    /\ Len(emitted) = 2
    /\ yielded = <<emitted[1]>>

(***************************************************************************)
(* C10.  As stated: in every streamed run that used at least one tool the  *)
(* caller observes the thinking events, then one traces event, then the    *)
(* text events, then the done sentinel; no text event precedes the traces  *)
(* event and nothing follows the sentinel.  The code sends the traces      *)
(* after the text events, and only when the consumer recorded a trace.     *)
(***************************************************************************)
Before(a, b) ==
    \A i, j \in 1..Len(yielded) :
        (yielded[i].type \in a /\ yielded[j].type \in b) => i < j

NothingFollowsSentinel ==
    \A i \in 1..Len(yielded) : yielded[i].type = "[DONE]" => i = Len(yielded)

\* the stream has ended with the sentinel and without an error event
StreamCompleted ==
    /\ mode = "stream"
    /\ cpc = "done"
    /\ CountOf(yielded, "error") = 0

\* the gather phase called a tool collaborator, and the consumer has seen it
UsedATool ==
    /\ \E i \in 1..Len(calls) : calls[i].tool \in Collaborators
    /\ tool_traces # <<>>

PositionsOf(events, type) == {i \in 1..Len(events) : events[i].type = type}

ThinkingOfStep(i) ==
    {j \in 1..Len(emitted) : emitted[j].type = "thinking" /\ emitted[j].iteration = i}

C12_ErrorEventIsLast ==
    mode = "stream" =>
        /\ CountOf(yielded, "error") <= 1
        /\ \A i \in PositionsOf(yielded, "error") : i = Len(yielded)

(***************************************************************************)
(* C14.  During a run the Context is append-only: at every step its        *)
(* previous value is a prefix of its new value; once seeded it begins with *)
(* the seed entry for the original query followed by the delimiter line;   *)
(* and the value AgentLoop.run returns, which is the value the caller      *)
(* receives, ends with the metadata block (step count, size, timestamp).   *)
(***************************************************************************)
IsPrefix(a, b) == Len(a) <= Len(b) /\ SubSeq(b, 1, Len(a)) = a

\* AgentLoop.run has executed its first two statements
Seeded == pc \in {"choose", "check", "finish", "returned", "ended", "raised"}

C14_ContextAppendOnly ==
    /\ [][IsPrefix(output_context, output_context')]_vars
    /\ [](Seeded => StartsWithSeed(output_context))
    /\ [](RunReturned
            => /\ EndsWithMetadata(output_context, iteration_count)
               /\ output_context[Len(output_context) - 1].size = Len(output_context) - 2
               /\ agent_context = output_context)

\* a returned run of two steps: the seed, two blocks, the metadata
C14_Witness ==
    /\ RunReturned
    /\ ToolBlocks(output_context) = 2
    /\ Len(output_context) = 10
    /\ output_context[1] = SeedEntry(message)
    /\ output_context[Len(output_context)].piece = "Timestamp"

(***************************************************************************)
(* C15.  While the gather loop runs, the step counter is within            *)
(* 1..max_iterations and equals the number of decisions requested so far;  *)
(* it increases by exactly 1 per decision cycle; the iteration index       *)
(* carried by a thinking event equals the number of decisions requested so *)
(* far; and no decision is requested once the counter has reached the      *)
(* bound, whether or not a stop was signalled.                             *)
(***************************************************************************)
DecisionRequested == Len(decided') = Len(decided) + 1

C15_StepCounterBounded ==
    /\ [](Len(decided) >= 1
            => /\ iteration_count \in 1..max_iterations
               /\ iteration_count = Len(decided))
    /\ [][Len(decided') # Len(decided)
            => /\ DecisionRequested
               /\ iteration_count < max_iterations
               /\ iteration_count' = iteration_count + 1
               /\ Len(emitted') > Len(emitted)
                    => /\ emitted'[Len(emitted')].type = "thinking"
                       /\ emitted'[Len(emitted')].iteration = Len(decided')]_vars

\* the loop has ended at the bound without a stop decision
C15_Witness ==
    /\ pc = "finish"
    /\ max_iterations = 2
    /\ iteration_count = 2
    /\ \A i \in 1..Len(decided) : ~IsStop(decided[i])
    /\ Len(emitted) = 2
    /\ emitted[2].type = "thinking"
    /\ emitted[2].iteration = 2

(***************************************************************************)
(* C19.  The traces event of a streamed run lists exactly one entry per    *)
(* tool call dispatched during the gather phase, in dispatch order, each   *)
(* entry naming the tool that was executed; a tool that the executor ran   *)
(* (tool name matched ignoring letter case) is never missing.              *)
(* The statement fails on the code: the consumer compares the tool name of *)
(* the thinking event as the engine spelled it, execute_tool compares it   *)
(* lowercased, so a call of "Weather" runs the weather tool and leaves no  *)
(* trace.                                                                  *)
(***************************************************************************)
TraceName(tool_name) ==
    CASE tool_name = "weather" -> "weather_tool"
      [] tool_name = "currency" -> "currency_convert"
      [] tool_name = "wikipedia" -> "wikipedia_search"

IsToolCall(call) == call.tool # None /\ call.tool \in Collaborators

\* one trace per dispatched tool call, in dispatch order
TracesOfCalls ==
    LET tool_calls == SelectSeq(calls, IsToolCall)
    IN  [i \in 1..Len(tool_calls) |-> Trace(TraceName(tool_calls[i].tool))]

C19_TracesListEveryCall ==
    StreamCompleted =>
        /\ tool_traces = TracesOfCalls
        /\ TracesOfCalls # <<>> => yielded[Len(yielded) - 1] = TracesEvent(TracesOfCalls)

(***************************************************************************)
(* C20.  run_agent returns the final answer together with an ordered trace *)
(* list that has exactly one entry per tool invocation made by the gather  *)
(* loop, in invocation order, and no entry for a tool that was not invoked *)
(* in that run.                                                            *)
(* The statement fails on the code: the list is read off the Context by    *)
(* three substring tests, so it has at most one entry per tool, always in  *)
(* the order weather, currency, wikipedia.                                 *)
(***************************************************************************)
SyncAnswered == mode = "sync" /\ cpc = "done" /\ result # ErrorResponse

C20_OneTracePerInvocation ==
    SyncAnswered =>
        /\ result.answer \in {"answer", "No response."}
        /\ result.traces = TracesOfCalls

(***************************************************************************)
(* C16.  For each tool (weather, currency, wikipedia): once a call has     *)
(* primed the cache, a second call with the same tool name and arguments   *)
(* within the TTL returns a payload identical to the first one, whatever   *)
(* the upstream service answers at the time of the second call.            *)
(* The statement fails on the code: convert neither reads nor writes the   *)
(* cache, every call asks the rate service again.                          *)
(***************************************************************************)
SameCall(a, b) == a.tool = b.tool /\ a.args = b.args

\* the call returned a payload that reports success
Succeeded(call) == ~call.raised /\ "error" \notin DOMAIN call.payload

\* the TTL of a tool's successful payload; convert sets none, the shortest
\* TTL of the collaborators stands in for it
TtlOf(tool) == IF tool = "wikipedia" THEN WikipediaTtl ELSE WeatherTtl

\* served[j] repeats the successful call served[i] within the TTL
RepeatsWithinTtl(i, j) ==
    /\ i < j
    /\ SameCall(served[i], served[j])
    /\ Succeeded(served[i])
    /\ served[j].at < served[i].at + TtlOf(served[i].tool)

C16_SecondCallIdentical ==
    \A i, j \in 1..Len(served) :
        RepeatsWithinTtl(i, j)
            => /\ ~served[j].raised
               /\ served[j].payload = served[i].payload

(***************************************************************************)
(* C17.  For every tool call that the collaborator accepts, the arguments  *)
(* echoed in the tool's result equal the arguments given in the call       *)
(* exactly: currency codes, amount and city come back unchanged.           *)
(* The statement fails on the code: convert echoes the codes upper-cased,  *)
(* and get_weather echoes the geocoder's display name of the place in      *)
(* place of the city it was given.                                         *)
(***************************************************************************)
EchoesArguments(call) ==
    CASE call.tool = "currency" ->
            /\ call.payload.amount = call.args.amount
            /\ call.payload.from = call.args.from
            /\ call.payload.to = call.args.to
      [] call.tool = "weather" -> call.payload.city = call.args.city
      [] call.tool = "wikipedia" ->
            "query" \in DOMAIN call.payload => call.payload.query = call.args.query

C17_ArgumentsEchoedExactly ==
    \A i \in 1..Len(served) : Succeeded(served[i]) => EchoesArguments(served[i])

(***************************************************************************)
(* C18.  convert(amount, from, to) returns a payload on both outcomes of   *)
(* the upstream rate service and does not raise for an upstream failure:   *)
(* when the service answers with a rate for the target currency, 'result'  *)
(* is non-null and no 'error' field is present; when the request fails or  *)
(* the target rate is absent, 'result' is null and 'error' is non-empty;   *)
(* 'result' is null exactly when 'error' is present.                       *)
(***************************************************************************)
\* the rate service answered the call with a rate for the target currency
RateGiven(call) ==
    /\ call.upstream.request = "ok"
    /\ "rates" \in DOMAIN call.upstream.r
    /\ Upper(call.args.to) \in DOMAIN call.upstream.r["rates"]

C18_ConvertReportsBothOutcomes ==
    \A i \in 1..Len(served) :
        served[i].tool = "currency" =>
            LET call == served[i]
                payload == call.payload
            IN  /\ ~call.raised
                /\ "result" \in DOMAIN payload
                /\ RateGiven(call)
                      => payload.result # None /\ "error" \notin DOMAIN payload
                /\ ~RateGiven(call)
                      => /\ payload.result = None
                         /\ "error" \in DOMAIN payload
                         /\ Truthy(payload.error)
                /\ payload.result = None <=> "error" \in DOMAIN payload

\* both outcomes met: a conversion at the given rate, then a request that fails
C18_Witness ==
    /\ Len(served) = 2
    /\ served[1].tool = "currency"
    /\ served[1].args.amount = 100
    /\ served[1].payload.result = "9200"
    /\ "error" \notin DOMAIN served[1].payload
    /\ served[2].tool = "currency"
    /\ served[2].upstream.request = "raise"
    /\ served[2].payload.result = None
    /\ served[2].payload.error = "exception text"

(***************************************************************************)
(* C13.  Two runs executing concurrently each own their Context, step      *)
(* counter and event queue: for every interleaving, the events and the     *)
(* final Context of one run are the same as when that run executes alone   *)
(* with the same decisions and tool results, and never contain data of the *)
(* other run.                                                              *)
(***************************************************************************)
\* the Context of a run alone after n dispatches
RECURSIVE Gathered(_, _, _, _)
Gathered(query, decisions, outcomes, n) ==
    IF n = 0 THEN <<SeedEntry(query), Delimiter>>
    ELSE LET before == Gathered(query, decisions, outcomes, n - 1)
             out == execute_tool(decisions[n], outcomes[n], before)
         IN  IF out.output # <<>> THEN before \o out.output \o <<Separator>> ELSE before

\* the thinking events of a run alone for its first n decisions
RECURSIVE ThinkingEvents(_, _)
ThinkingEvents(decisions, n) ==
    IF n = 0 THEN <<>>
    ELSE ThinkingEvents(decisions, n - 1)
         \o (IF decisions[n] # <<>> THEN <<ThinkingEvent(n, decisions[n])>> ELSE <<>>)

\* the traces a consumer records for the first n events
RECURSIVE TracesOf(_, _)
TracesOf(events, n) ==
    IF n = 0 THEN <<>> ELSE TrackToolUsage(TracesOf(events, n - 1), events[n])

\* the text holds the seed entry of `query`, also inside a get_context block
RECURSIVE HoldsQuery(_, _)
HoldsQuery(context, query) ==
    \E i \in 1..Len(context) :
        \/ context[i] = SeedEntry(query)
        \/ /\ context[i].piece = "Context requested"
           /\ HoldsQuery(context[i].context, query)

Other(r) == CHOOSE q \in Requests : q # r

\* the loop of request r has broken on a stop decision
Stopped(run) ==
    /\ run.pc \in {"finish", "ended"}
    /\ run.decided # <<>>
    /\ IsStop(run.decided[Len(run.decided)])

C13_RunsOwnTheirState ==
    mode = "concurrent" =>
        \A r \in Requests :
            LET run == runs[r]
                loop == loops[Owner(r)]
                alone == Gathered(Query(r), run.decided, run.outcomes, Len(run.outcomes))
                events == ThinkingEvents(run.decided, Len(run.decided))
                             \o (IF Stopped(run) THEN <<ThinkingComplete>> ELSE <<>>)
            IN  /\ run.pc \in {"choose", "check", "finish"}
                      => /\ loop.output_context = alone
                         /\ loop.iteration_count = Len(run.decided)
                /\ run.pc = "ended"
                      => /\ run.agent_context = WithMetadata(alone, Len(run.decided))
                         /\ loop.output_context = run.agent_context
                /\ ~HoldsQuery(loop.output_context, Query(Other(r)))
                /\ ~HoldsQuery(run.agent_context, Query(Other(r)))
                /\ run.emitted = events
                /\ LoopEventsOf(run.yielded) \o LoopEventsOf(run.event_queue) = events
                /\ run.cpc = "finished"
                      => run.yielded = events \o FinalTraces(TracesOf(events, Len(events)))

\* both runs in flight: request 1 has read its own Context back in its first
\* step and its consumer has delivered that step's event, while request 2 has
\* already ended after a weather call
C13_Witness ==
    /\ mode = "concurrent"
    /\ runs[1].pc = "check"
    /\ runs[1].iteration = 2
    /\ loops[Owner(1)].output_context[3] =
           ContextBlock(<<SeedEntry(Query(1)), Delimiter>>)
    /\ Len(runs[1].yielded) = 1
    /\ runs[2].pc = "ended"
    /\ runs[2].cpc = "poll"
    /\ loops[Owner(2)].output_context[1] = SeedEntry(Query(2))
    /\ loops[Owner(2)].output_context[3].piece = "Weather function was called"

(***************************************************************************)
(* C21.  Every trace entry handed to the caller, in the traces event of    *)
(* run_agent_stream and in the trace list of run_agent, carries the        *)
(* arguments used by, and the result of, the tool invocation it records.   *)
(* The statement fails on the code: both callers build every entry with    *)
(* empty args and an empty result.                                         *)
(***************************************************************************)
\* the trace lists handed to the caller so far
HandedTraces ==
    IF mode = "sync"
    THEN IF cpc = "done" THEN {result.traces} ELSE {}
    ELSE { yielded[i].traces : i \in {j \in 1..Len(yielded) : yielded[j].type = "traces"} }

\* the arguments of the decision that call i dispatched
ArgumentsOf(i) == ThinkingEvent(i, decided[i]).params

\* the entry records call i: its tool, its arguments and a result
RecordsCall(trace, i) ==
    /\ IsToolCall(calls[i])
    /\ trace.name = TraceName(calls[i].tool)
    /\ trace.args = ArgumentsOf(i)
    /\ trace.result # <<>>

C21_TracesCarryArgsAndResult ==
    \A traces \in HandedTraces :
        \A k \in 1..Len(traces) :
            \E i \in 1..Len(calls) : RecordsCall(traces[k], i)

(***************************************************************************)
(* C22.  For every run in which the harness does not fail, whatever the    *)
(* tools return (every tool call may fail) and whether the loop ends by    *)
(* stop or by the step bound, the synthesis stage is invoked exactly once, *)
(* with the final accumulated Context, and the caller receives a final     *)
(* answer.  The synthesis engine itself is taken to answer: when it raises *)
(* the caller gets the error response or the error event instead.          *)
(***************************************************************************)
\* the synthesis call raised: run_agent's error response, the stream's error event
SynthesisFailed ==
    IF mode = "sync" THEN result = ErrorResponse ELSE CountOf(yielded, "error") > 0

\* the caller holds the answer: run_agent's return value, or the completed stream
Answered ==
    IF mode = "sync"
    THEN result.answer \in {"answer", "No response."}
    ELSE /\ yielded # <<>>
         /\ yielded[Len(yielded)] = DoneFrame
         /\ CountOf(yielded, "text") <= chunks

\* every call of the gather loop failed: an error payload or an exception
EveryToolCallFailed ==
    /\ calls # <<>>
    /\ \A i \in 1..Len(calls) : calls[i].outcome \in {"error", "raise"}

SynthesisOnceOnFinalContext ==
    /\ Len(prompts) <= 1
    /\ \A i \in 1..Len(prompts) :
          /\ RunReturned
          /\ prompts[i].query = message
          /\ prompts[i].context = output_context
          /\ StartsWithSeed(prompts[i].context)
          /\ EndsWithMetadata(prompts[i].context, iteration_count)
          /\ ToolBlocks(prompts[i].context) =
                 Cardinality({c \in 1..Len(calls) : calls[c].tool # "stop"})
    /\ (RunReturned /\ cpc = "done" /\ ~SynthesisFailed) =>
          /\ Len(prompts) = 1
          /\ Answered

Malformed(b) ==
    \/ b.kind # "object"
    \/ b.message.type # "string"
    \/ b.message.text = ""
    \/ b.history.type \notin {"absent", "array"}

\* AgentLoop.run was called for the request
RunStarted == pc # "idle"

C23_MalformedNeverReachesLoop ==
    (mode # "chat" \/ cpc # "route") /\ Malformed(body) =>
        /\ http \in {"400 Bad Request", "400 message is required"}
        /\ ~RunStarted

(***************************************************************************)
(* C24.  Every thinking event carries the step index, the decision's tool  *)
(* name, an argument mapping equal to the decision without its tool,       *)
(* reason and stop fields, and a non-empty rationale: the decision's own   *)
(* reason whenever the engine supplied one, the generic placeholder only   *)
(* when it supplied none.                                                  *)
(* The statement fails on the code: the placeholder is the default of      *)
(* dict.get, so a reason field that is present but empty is passed on and  *)
(* the event carries an empty rationale.                                   *)
(***************************************************************************)
Placeholder == "Analyzing query..."

\* the event is the thinking event of decision d made at step i
CarriesDecision(event, i, d) ==
    /\ event.iteration = i
    /\ event.tool = Get(d, "tool", None)
    /\ event.params = [k \in DOMAIN d \ {"tool", "reason", "stop"} |-> d[k]]
    /\ Truthy(event.reason)
    /\ IF "reason" \in DOMAIN d /\ Truthy(d["reason"])
       THEN event.reason = d["reason"]
       ELSE event.reason = Placeholder

C24_ThinkingCarriesRationale ==
    \A k \in 1..Len(emitted) :
        emitted[k].type = "thinking" =>
            /\ emitted[k].iteration \in 1..Len(decided)
            /\ CarriesDecision(emitted[k], emitted[k].iteration,
                               decided[emitted[k].iteration])

(***************************************************************************)
(* C25.  When a callback is supplied, the loop emits exactly one thinking  *)
(* event for every decision cycle, before that decision's tool is          *)
(* dispatched, whatever decision the engine returned (a JSON object with   *)
(* no fields included): a run has as many thinking events as cycles.       *)
(* The statement fails on the code: the event is emitted only for a truthy *)
(* decision, and the empty object, which is dispatched like any other      *)
(* decision, is falsy.                                                     *)
(***************************************************************************)
\* the decision cycles begun so far
Cycles == Len(decided)

C25_OneThinkingPerCycle ==
    HasCallback =>
        /\ CountOf(emitted, "thinking") = Cycles
        /\ \A i \in 1..Cycles : Cardinality(ThinkingOfStep(i)) = 1
        /\ Len(calls) <= CountOf(emitted, "thinking")

(***************************************************************************)
(* C26.  Every decision that execute_tool handles as the stop pseudo-tool  *)
(* (tool name equal to "stop" ignoring letter case: no external call, an   *)
(* empty result) also ends the loop at that step, with a thinking_complete *)
(* event after its thinking event; no decision is handled as stop by the   *)
(* executor while the loop goes on to a further step.                      *)
(* The statement fails on the code: run compares the name exactly,         *)
(* execute_tool compares it lowercased, so "STOP" is dispatched, yields    *)
(* the empty result and the loop goes on.                                  *)
(***************************************************************************)
\* execute_tool would take its stop branch for the decision
ExecutorStop(decision) ==
    LET tool == Get(decision, "tool", "")
    IN  tool # None /\ Lower(tool) = "stop"

\* the thinking event of step i is followed by thinking_complete
CompleteFollows(i) ==
    \E j \in ThinkingOfStep(i) :
        \E k \in (j + 1)..Len(emitted) : emitted[k].type = "thinking_complete"

C26_ExecutorStopEndsLoop ==
    \A i \in 1..Len(decided) :
        ExecutorStop(decided[i]) =>
            /\ i = Len(decided)
            /\ Len(calls) < i
            /\ (HasCallback /\ pc # "check") => CompleteFollows(i)

(***************************************************************************)
(* C27.  A get_context decision makes no external call, yields a result    *)
(* that contains the Context exactly as it stood at that step, has that    *)
(* result appended to the Context like any other tool block (the block,    *)
(* then the separator), and does not end the run: the loop goes on to the  *)
(* next step whenever the step bound leaves one.                           *)
(***************************************************************************)
\* the decision at hand is one that execute_tool handles as get_context
ContextRequested ==
    /\ pc = "check"
    /\ Get(tool_decision, "tool", "") \in {"get_context"}

C27_GetContextEchoesContext ==
    [][ (ContextRequested /\ pc' # pc) =>
            /\ calls' = Append(calls, [tool |-> "get_context", outcome |-> "none"])
            /\ UNCHANGED <<cache, served, emitted>>
            /\ output_context' =
                   output_context
                   \o <<[piece |-> "Context requested", context |-> output_context],
                        Separator>>
            /\ pc' = IF iteration_count < max_iterations THEN "choose" ELSE "finish" ]_vars

C27_Witness ==
    /\ Len(decided) = 2
    /\ Get(decided[1], "tool", "") = "get_context"
    /\ Len(calls) = 1
    /\ Len(output_context) = 4
    /\ output_context[3] =
           [piece |-> "Context requested", context |-> SubSeq(output_context, 1, 2)]
    /\ output_context[4] = Separator

(***************************************************************************)
(* C28.  The total Context size recorded in the trailing metadata block    *)
(* equals the size of the Context that AgentLoop.run returns.              *)
(* The statement fails on the code: the size is taken while the metadata   *)
(* is being appended, before the size line itself and the timestamp line   *)
(* are added, so the recorded number is always smaller than the size of    *)
(* the returned Context.                                                   *)
(***************************************************************************)
\* the size written in the metadata of a returned Context
RecordedSize(context) == context[Len(context) - 1].size

C28_RecordedSizeIsFinalSize ==
    RunReturned =>
        /\ EndsWithMetadata(output_context, iteration_count)
        /\ RecordedSize(output_context) = Size(output_context)

(***************************************************************************)
(* C29.  For a decision sequence of m tool decisions followed by stop      *)
(* (m + 1 <= N), the returned Context holds the m tool blocks in the order *)
(* the decisions were made and the metadata records m + 1 as the final     *)
(* step count; when the run is Exhausted the metadata records N.           *)
(* The statement fails on the code through C26: a stop that is not spelled *)
(* in lower case does not end the loop, the run goes on to further steps   *)
(* and the metadata records more than m + 1.                               *)
(***************************************************************************)
\* the first stop decision of the run is the one of step k
FirstStopAt(k) ==
    /\ ExecutorStop(decided[k])
    /\ \A j \in 1..(k - 1) : ~ExecutorStop(decided[j])

\* the results the collaborators gave to the dispatches of the run
OutcomesOfCalls == [i \in 1..Len(calls) |-> calls[i].outcome]

C29_BlocksInOrderAndStepCount ==
    /\ \A k \in 1..Len(decided) :
          FirstStopAt(k) =>
              /\ Len(decided) = k
              /\ RunReturned =>
                    /\ ToolBlocks(output_context) = k - 1
                    /\ output_context =
                           WithMetadata(Gathered(message, decided, OutcomesOfCalls, k - 1), k)
    /\ (RunReturned /\ \A k \in 1..Len(decided) : ~ExecutorStop(decided[k])) =>
          EndsWithMetadata(output_context, max_iterations)

(***************************************************************************)
(* C30.  For every raw response that contains a valid JSON object,         *)
(* possibly surrounded by prose (prose or further objects with braces      *)
(* after it included), choose_tool_result returns the decision parsed from *)
(* the first balanced {...} substring of the response.                     *)
(* The statement fails on the code: the substring taken runs from the      *)
(* first "{" to the last "}" of the response, so a brace after the object  *)
(* makes json.loads fail and the stop default is returned.                 *)
(***************************************************************************)
\* the position of the brace that closes the one opened at or after i, 0 if none
RECURSIVE BalancedEnd(_, _, _)
BalancedEnd(text, i, depth) ==
    IF i > Len(text) THEN 0
    ELSE IF text[i] = "{" THEN BalancedEnd(text, i + 1, depth + 1)
    ELSE IF text[i] = "}"
         THEN IF depth = 1 THEN i ELSE BalancedEnd(text, i + 1, depth - 1)
    ELSE BalancedEnd(text, i + 1, depth)

\* the positions at which a balanced {...} substring starts
BalancedStarts(text) ==
    {i \in 1..Len(text) : text[i] = "{" /\ BalancedEnd(text, i, 0) # 0}

\* the first balanced {...} substring, <<>> if there is none
FirstBalanced(text) ==
    IF BalancedStarts(text) = {} THEN <<>>
    ELSE LET start == Min(BalancedStarts(text))
         IN  SubSeq(text, start, BalancedEnd(text, start, 0))

C30_FirstBalancedObjectParsed ==
    (pc = "parsed" /\ ~response.raises /\ IsJsonObject(FirstBalanced(response.text))) =>
        tool_decision = JsonLoads(FirstBalanced(response.text), response.members)

(***************************************************************************)
(* C31.  Once the gather loop has returned, no tool collaborator is called *)
(* again in that run: the synthesis stage makes one reasoning-engine call  *)
(* and dispatches no tool, in run_agent and in run_agent_stream alike.     *)
(***************************************************************************)
\* no decision is asked for, no tool is dispatched, no collaborator is reached
NoToolActivity ==
    /\ decided' = decided
    /\ calls' = calls
    /\ UNCHANGED <<cache, served>>
    /\ UNCHANGED <<output_context, agent_context, iteration_count>>

C31_SynthesisDispatchesNoTool ==
    [][ RunReturned =>
            /\ NoToolActivity
            /\ Len(prompts') <= 1
            /\ (prompts' # prompts) =>
                   prompts' = Append(prompts, [query |-> message,
                                               context |-> agent_context]) ]_vars

C31_Witness ==
    /\ RunReturned
    /\ cpc = "done"
    /\ Len(prompts) = 1
    /\ Len(calls) >= 1
    /\ IsToolCall(calls[1])
    /\ ~SynthesisFailed

(***************************************************************************)
(* C32.  In run_agent_stream the synthesis prompt is never built before    *)
(* the worker has stored the final Context: in every interleaving of the   *)
(* worker and the consumer, whenever synthesis starts, agent_context holds *)
(* the value AgentLoop.run returned and never its initial None.            *)
(***************************************************************************)
\* the consumer has left its polling loop: synthesis starts or has started
SynthesisStarted == mode = "stream" /\ cpc \in {"synth", "stream", "finished", "done"}

\* agent_context holds the value AgentLoop.run returned
ContextStored ==
    /\ pc = "ended"
    /\ agent_context # <<[piece |-> "None"]>>
    /\ agent_context = output_context
    /\ StartsWithSeed(agent_context)
    /\ EndsWithMetadata(agent_context, iteration_count)

C32_PromptAfterContextStored ==
    /\ SynthesisStarted => ContextStored
    /\ mode = "stream" =>
          \A i \in 1..Len(prompts) :
              /\ prompts[i].context # <<[piece |-> "None"]>>
              /\ prompts[i].context = output_context

C32_Witness ==
    /\ mode = "stream"
    /\ cpc = "stream"
    /\ Len(prompts) = 1
    /\ ToolBlocks(prompts[1].context) >= 1
    /\ ContextStored
====
